---------------------------- MODULE Spec2Model ----------------------------
(***************************************************************************)
(* Registration, e-mail verification and login of the Travel Planner       *)
(* backend (src/server.js) over the users table (src/models/userModel.js). *)
(*                                                                         *)
(* Every handler is an async function: it runs to its next `await` without *)
(* interruption, and other requests may run between two awaits.  Each      *)
(* action below is one such segment: the store call (or mail send) that    *)
(* the await waits for, followed by the synchronous code up to the next    *)
(* await or to the response.                                               *)
(***************************************************************************)
EXTENDS Integers, Sequences, FiniteSets, TLC

\* ------------------------------------------------------------------ bounds
MaxReqs == 2          \* requests in one run
MaxPw == 2            \* passwords 1..MaxPw
MaxFaults == 1        \* store calls and mail sends that fail in one run
MaxClock == 1         \* Date.now() is in 0..MaxClock seconds

\* ------------------------------------------------------- program constants
SaltRounds == 10      \* bcrypt.genSalt(10)
ExpiresIn == 86400    \* expiresIn: '24h', in seconds

Reqs == 1..MaxReqs
Passwords == 1..MaxPw
\* the values Math.floor(Date.now() / 1000) may take when a token is signed
Clock == 0..MaxClock
\* tokens a caller may present to the verify route: every unique_id that can
\* be in the store during a run that holds a verify request (the user the
\* run starts with, and one per other request); some belong to no user
UniqueIds == 1..MaxReqs

VARIABLES
    users,          \* the rows of the users table, in insertion order
    emailUniqueKey, \* whether the table declares a UNIQUE key on email
    uuids,          \* number of random draws (salt, unique_id) made so far
    sent,           \* the mailOptions passed to transporter.sendMail, in order
    mails,          \* the messages accepted by transporter.sendMail
    kind,           \* kind[r]: the route request r was sent to
    pc,             \* pc[r]: the await request r is waiting at
    body,           \* body[r]: req.body / req.params
    local,          \* local[r]: the handler's local variables
    res,            \* res[r]: the response sent for r
    threw,          \* threw[r]: the call that rejected in r, "" if none
    doneBefore,     \* doneBefore[r]: the requests answered before r arrived
    verifiedBy,     \* verifiedBy[id]: the requests whose verifyUser updated user id
    registered      \* registered[id]: the password user id was registered with

vars == <<users, emailUniqueKey, uuids, sent, mails, kind, pc, body, local,
          res, threw, doneBefore, verifiedBy, registered>>

\* --------------------------------------------------------------- responses
NoResponse == [status |-> 0, body |-> "", token |-> {}]

Json(status, text) == [status |-> status, body |-> text, token |-> {}]

EmailTaken == Json(400, "Email already registered.")
Created == Json(201, "Registration successful. Check your email to verify.")
RegisterError == Json(500, "Server error during registration.")

InvalidLink == Json(404, "<h1>Invalid verification link.</h1>")
AlreadyVerified == Json(200, "<h1>Your email is already verified.</h1>")
NewlyVerified == Json(200, "<h1>Thank you! Your email has been verified.</h1>")
VerifyError == Json(500, "<h1>Server error during verification.</h1>")

NotVerified == Json(403, "Please verify your email before logging in.")
LoginOk(token) == [status |-> 200, body |-> "Login successful.", token |-> {token}]
LoginError == Json(500, "Server error during login.")

\* ------------------------------------------------------------------ bcrypt
\* The digest bcrypt derives from a salt and a password.  Within the bounds
\* it is one-to-one in the password for a fixed salt, as bcrypt is up to a
\* negligible collision probability for passwords within its input length.
Digest(salt, password) == (password * 7 + salt * 13) % 31

\* bcrypt.hash(password, salt): the stored string embeds cost and salt.
BcryptHash(password, salt) ==
    [cost |-> SaltRounds, salt |-> salt, digest |-> Digest(salt, password)]

\* Mutant of BcryptCompare: only the format of the stored hash is checked.
BcryptCompareFormatOnly(password, hash) == hash.cost = SaltRounds

\* bcrypt.compare(password, hash): re-derive with the embedded salt.
BcryptCompare(password, hash) == Digest(hash.salt, password) = hash.digest

\* --------------------------------------------------------------- userModel
Rows == {users[i] : i \in DOMAIN users}

\* SELECT * FROM users WHERE email = ? LIMIT 1: the rows rows[0] may be
\* (none: undefined).  Without ORDER BY any matching row may come first.
FindByEmail(email) == {u \in Rows : u.email = email}

\* Mutant of FindByUniqueId: the WHERE clause is missing.
FindByUniqueIdAnyRow(unique_id) == Rows

\* SELECT * FROM users WHERE unique_id = ? LIMIT 1
FindByUniqueId(unique_id) == {u \in Rows : u.unique_id = unique_id}

\* The row INSERT INTO users (...) VALUES (...) adds: id is AUTO_INCREMENT,
\* is_verified takes the column default (false).
NewRowVerified(unique_id, first_name, last_name, email, password_hash) ==
    [id |-> Len(users) + 1, unique_id |-> unique_id,
     first_name |-> first_name, last_name |-> last_name, email |-> email,
     password_hash |-> password_hash, is_verified |-> TRUE]

NewRow(unique_id, first_name, last_name, email, password_hash) ==
    [id |-> Len(users) + 1,
     unique_id |-> unique_id,
     first_name |-> first_name,
     last_name |-> last_name,
     email |-> email,
     password_hash |-> password_hash,
     is_verified |-> FALSE]

\* Whether the INSERT is rejected by the table (ER_DUP_ENTRY): only a UNIQUE
\* key on email can reject it; createUser itself checks nothing.
DuplicateEntry(email) ==
    emailUniqueKey /\ \E u \in Rows : u.email = email

\* Mutant of VerifiedRows: SET is_verified = NOT is_verified.
VerifiedRowsToggle(unique_id) ==
    [i \in DOMAIN users |->
        IF users[i].unique_id = unique_id
        THEN [users[i] EXCEPT !.is_verified = ~users[i].is_verified]
        ELSE users[i]]

\* Mutant of VerifiedRows: the UPDATE has no WHERE clause.
VerifiedRowsAll(unique_id) ==
    [i \in DOMAIN users |-> [users[i] EXCEPT !.is_verified = TRUE]]

\* Mutant of VerifiedRows: WHERE email = ?, which no unique_id matches.
VerifiedRowsWhereEmail(unique_id) ==
    [i \in DOMAIN users |->
        IF users[i].email = "" /\ unique_id > 0
        THEN [users[i] EXCEPT !.is_verified = TRUE]
        ELSE users[i]]

\* UPDATE users SET is_verified = TRUE WHERE unique_id = ?
VerifiedRows(unique_id) ==
    [i \in DOMAIN users |->
        IF users[i].unique_id = unique_id
        THEN [users[i] EXCEPT !.is_verified = TRUE]
        ELSE users[i]]

\* --------------------------------------------------------------------- jwt
\* Mutant of JwtSign: expiresIn: '1h'.
JwtSignOneHour(user, iat) ==
    [id |-> user.id,
     email |-> user.email,
     first_name |-> user.first_name,
     last_name |-> user.last_name,
     iat |-> iat,
     exp |-> iat + 3600]

\* jwt.sign(payload, secret, { expiresIn: '24h' }): the claims of the token.
JwtSign(user, iat) ==
    [id |-> user.id,
     email |-> user.email,
     first_name |-> user.first_name,
     last_name |-> user.last_name,
     iat |-> iat,
     exp |-> iat + ExpiresIn]

\* ---------------------------------------------------------------- requests
NoBody == [email |-> "", password |-> 0, first_name |-> "", last_name |-> "",
           unique_id |-> 0]
NoLocal == [user |-> {}, unique_id |-> 0]

\* The users table outlives the server process: when the server starts it
\* is empty, or holds a user that an earlier run registered (and perhaps
\* verified).  Request 0 stands for the requests of earlier runs.
EarlierUser(is_verified) ==
    [id |-> 1,
     unique_id |-> 1,
     first_name |-> "Alice",
     last_name |-> "Smith",
     email |-> "alice@example.com",
     password_hash |-> BcryptHash(1, 1),
     is_verified |-> is_verified]

Init ==
    /\ emailUniqueKey \in BOOLEAN
    /\ \/ /\ users = <<>>
          /\ uuids = 0
          /\ registered = [i \in 1..MaxReqs + 1 |-> 0]
          /\ verifiedBy = [i \in 1..MaxReqs + 1 |-> {}]
       \/ \E is_verified \in BOOLEAN :
             /\ users = <<EarlierUser(is_verified)>>
             /\ uuids = 1
             /\ registered = [i \in 1..MaxReqs + 1 |-> IF i = 1 THEN 1 ELSE 0]
             /\ verifiedBy = [i \in 1..MaxReqs + 1 |->
                                IF i = 1 /\ is_verified THEN {0} ELSE {}]
    /\ sent = <<>>
    /\ mails = {}
    /\ kind = [r \in Reqs |-> "none"]
    /\ pc = [r \in Reqs |-> "idle"]
    /\ body = [r \in Reqs |-> NoBody]
    /\ local = [r \in Reqs |-> NoLocal]
    /\ res = [r \in Reqs |-> NoResponse]
    /\ threw = [r \in Reqs |-> ""]
    /\ doneBefore = [r \in Reqs |-> {}]

\* A request arrives; requests take the slots in order.
Arrive(r, k, b) ==
    /\ pc[r] = "idle"
    /\ \A q \in Reqs : q < r => pc[q] # "idle"
    /\ kind' = [kind EXCEPT ![r] = k]
    /\ body' = [body EXCEPT ![r] = b]
    /\ pc' = [pc EXCEPT ![r] = "find"]
    /\ doneBefore' = [doneBefore EXCEPT ![r] = {q \in Reqs : pc[q] = "done"}]
    /\ UNCHANGED <<users, emailUniqueKey, uuids, mails, local, res, threw,
                   verifiedBy, registered, sent>>

\* The response is sent and the handler returns.
Respond(r, response) ==
    /\ res' = [res EXCEPT ![r] = response]
    /\ pc' = [pc EXCEPT ![r] = "done"]

\* Mutant of Throw: the await is outside the try, the rejection is unhandled
\* and nothing is sent.
ThrowUncaught(r, call, response) ==
    /\ threw' = [threw EXCEPT ![r] = call]
    /\ pc' = [pc EXCEPT ![r] = "rejected"]
    /\ UNCHANGED res

\* A store call or the mail send rejects: the handler's catch answers 500.
Throw(r, call, response) ==
    /\ threw' = [threw EXCEPT ![r] = call]
    /\ Respond(r, response)

\* The calls that failed although the statement was acceptable to the table
\* (connection lost, server down, SMTP refused).
Faults == {r \in Reqs : threw[r] \notin {"", "ER_DUP_ENTRY"}}
CanFail == Cardinality(Faults) < MaxFaults

\* rows[0] of a LIMIT 1 query: no user ({}) or one of the matching rows.
First(found) == IF found = {} THEN {{}} ELSE {{u} : u \in found}

\* -------------------------------------------- POST /api/auth/register
\* After `await userModel.findByEmail(email)`: the response, if one is sent.
RegisterOnFind(existingUser) ==
    IF existingUser # {} THEN EmailTaken ELSE NoResponse

RegisterFind(r) ==
    /\ kind[r] = "register" /\ pc[r] = "find"
    /\ \E existingUser \in First(FindByEmail(body[r].email)) :
          LET out == RegisterOnFind(existingUser) IN
          IF out # NoResponse
          THEN Respond(r, out)
          ELSE /\ pc' = [pc EXCEPT ![r] = "insert"]
               /\ UNCHANGED res
    /\ UNCHANGED <<users, emailUniqueKey, uuids, mails, kind, body, local,
                   threw, doneBefore, verifiedBy, registered, sent>>

RegisterFindFail(r) ==
    /\ kind[r] = "register" /\ pc[r] = "find"
    /\ CanFail
    /\ Throw(r, "findByEmail", RegisterError)
    /\ UNCHANGED <<users, emailUniqueKey, uuids, mails, kind, body, local,
                   doneBefore, verifiedBy, registered, sent>>

\* bcrypt.genSalt(10) and uuidv4() draw 128 and 122 random bits: each call
\* yields a value no earlier call yielded, here the number of the draw.
GenSalt == uuids + 1
Uuidv4 == uuids + 1

\* Mutant of MailOptions: the link embeds the AUTO_INCREMENT id of the row.
MailOptionsInsertId(r, unique_id) ==
    [req |-> r, to |-> body[r].email, link |-> Len(users) + 1]

\* mailOptions: the recipient and the unique_id embedded in verifyUrl.
MailOptions(r, unique_id) ==
    [req |-> r, to |-> body[r].email, link |-> unique_id]

\* genSalt, hash and uuidv4 touch no shared state: they are taken together
\* with the INSERT that follows them; so is the synchronous code after it,
\* which builds mailOptions and calls transporter.sendMail.
RegisterInsert(r) ==
    /\ kind[r] = "register" /\ pc[r] = "insert"
    /\    LET password_hash == BcryptHash(body[r].password, GenSalt)
              unique_id == Uuidv4
          IN  /\ uuids' = unique_id
              /\ local' = [local EXCEPT ![r].unique_id = unique_id]
              /\ IF DuplicateEntry(body[r].email)
                 THEN /\ Throw(r, "ER_DUP_ENTRY", RegisterError)
                      /\ UNCHANGED <<users, registered, sent>>
                 ELSE /\ users' = Append(users,
                             NewRow(unique_id, body[r].first_name,
                                    body[r].last_name, body[r].email,
                                    password_hash))
                      /\ registered' = [registered EXCEPT
                                           ![Len(users) + 1] = body[r].password]
                      /\ sent' = Append(sent, MailOptions(r, unique_id))
                      /\ pc' = [pc EXCEPT ![r] = "mail"]
                      /\ UNCHANGED <<res, threw>>
    /\ UNCHANGED <<emailUniqueKey, mails, kind, body, doneBefore,
                   verifiedBy>>

\* The store is unreachable or the statement fails: no row is written.
RegisterInsertFail(r) ==
    /\ kind[r] = "register" /\ pc[r] = "insert"
    /\ CanFail
    /\ uuids' = Uuidv4
    /\ local' = [local EXCEPT ![r].unique_id = Uuidv4]
    /\ Throw(r, "createUser", RegisterError)
    /\ UNCHANGED <<users, emailUniqueKey, mails, kind, body, doneBefore,
                   verifiedBy, registered, sent>>

RegisterMail(r) ==
    /\ kind[r] = "register" /\ pc[r] = "mail"
    /\ mails' = mails \cup {MailOptions(r, local[r].unique_id)}
    /\ Respond(r, Created)
    /\ UNCHANGED <<users, emailUniqueKey, uuids, kind, body, local, threw,
                   doneBefore, verifiedBy, registered, sent>>

\* Mutant of RegisterMailFail: the catch deletes the row it inserted.
RegisterMailFailRollback(r) ==
    /\ kind[r] = "register" /\ pc[r] = "mail"
    /\ CanFail
    /\ users' = SelectSeq(users, LAMBDA u : u.unique_id # local[r].unique_id)
    /\ Throw(r, "sendMail", RegisterError)
    /\ UNCHANGED <<emailUniqueKey, uuids, mails, kind, body, local,
                   doneBefore, verifiedBy, registered, sent>>

RegisterMailFail(r) ==
    /\ kind[r] = "register" /\ pc[r] = "mail"
    /\ CanFail
    /\ Throw(r, "sendMail", RegisterError)
    /\ UNCHANGED <<users, emailUniqueKey, uuids, mails, kind, body, local,
                   doneBefore, verifiedBy, registered, sent>>

\* -------------------------------------- GET /api/auth/verify/:unique_id
\* Mutant of VerifyOnFind: the `if (user.is_verified)` return is missing.
VerifyOnFindNoVerifiedCheck(user) ==
    IF user = {} THEN InvalidLink ELSE NoResponse

\* After `await userModel.findByUniqueId(unique_id)`.
VerifyOnFind(user) ==
    IF user = {} THEN InvalidLink
    ELSE IF \E u \in user : u.is_verified THEN AlreadyVerified
    ELSE NoResponse

VerifyFind(r) ==
    /\ kind[r] = "verify" /\ pc[r] = "find"
    /\ \E user \in First(FindByUniqueId(body[r].unique_id)) :
          LET out == VerifyOnFind(user) IN
          /\ local' = [local EXCEPT ![r].user = user]
          /\ IF out # NoResponse
             THEN Respond(r, out)
             ELSE /\ pc' = [pc EXCEPT ![r] = "mark"]
                  /\ UNCHANGED res
    /\ UNCHANGED <<users, emailUniqueKey, uuids, mails, kind, body, threw,
                   doneBefore, verifiedBy, registered, sent>>

VerifyFindFail(r) ==
    /\ kind[r] = "verify" /\ pc[r] = "find"
    /\ CanFail
    /\ Throw(r, "findByUniqueId", VerifyError)
    /\ UNCHANGED <<users, emailUniqueKey, uuids, mails, kind, body, local,
                   doneBefore, verifiedBy, registered, sent>>

VerifyMark(r) ==
    /\ kind[r] = "verify" /\ pc[r] = "mark"
    /\ users' = VerifiedRows(body[r].unique_id)
    /\ verifiedBy' = [i \in DOMAIN verifiedBy |->
                        IF i \in DOMAIN users
                           /\ users[i].unique_id = body[r].unique_id
                        THEN verifiedBy[i] \cup {r}
                        ELSE verifiedBy[i]]
    /\ Respond(r, NewlyVerified)
    /\ UNCHANGED <<emailUniqueKey, uuids, mails, kind, body, local, threw,
                   doneBefore, registered, sent>>

VerifyMarkFail(r) ==
    /\ kind[r] = "verify" /\ pc[r] = "mark"
    /\ CanFail
    /\ Throw(r, "verifyUser", VerifyError)
    /\ UNCHANGED <<users, emailUniqueKey, uuids, mails, kind, body, local,
                   doneBefore, verifiedBy, registered, sent>>

\* ----------------------------------------------- POST /api/auth/login
UnknownEmail == Json(400, "Invalid email or password.")
\* Mutant of WrongPassword: the answer tells that the email exists.
WrongPasswordDistinct == Json(401, "Wrong password.")
WrongPassword == Json(400, "Invalid email or password.")

\* Mutant of LoginOnFind: the `if (!user.is_verified)` return is missing.
LoginOnFindNoVerifiedCheck(user) ==
    IF user = {} THEN UnknownEmail ELSE NoResponse

LoginOnFindUnknownNotVerified(user) ==
    IF user = {} \/ \E u \in user : ~u.is_verified THEN NotVerified
    ELSE NoResponse

\* After `await userModel.findByEmail(email)`.
LoginOnFind(user) ==
    IF user = {} THEN UnknownEmail
    ELSE IF \E u \in user : ~u.is_verified THEN NotVerified
    ELSE NoResponse

LoginFind(r) ==
    /\ kind[r] = "login" /\ pc[r] = "find"
    /\ \E user \in First(FindByEmail(body[r].email)) :
          LET out == LoginOnFind(user) IN
          /\ local' = [local EXCEPT ![r].user = user]
          /\ IF out # NoResponse
             THEN Respond(r, out)
             ELSE /\ pc' = [pc EXCEPT ![r] = "compare"]
                  /\ UNCHANGED res
    /\ UNCHANGED <<users, emailUniqueKey, uuids, mails, kind, body, threw,
                   doneBefore, verifiedBy, registered, sent>>

LoginFindFail(r) ==
    /\ kind[r] = "login" /\ pc[r] = "find"
    /\ CanFail
    /\ Throw(r, "findByEmail", LoginError)
    /\ UNCHANGED <<users, emailUniqueKey, uuids, mails, kind, body, local,
                   doneBefore, verifiedBy, registered, sent>>

\* After `await bcrypt.compare(password, user.password_hash)`.
LoginOnCompare(user, password, iat) ==
    IF ~BcryptCompare(password, user.password_hash)
    THEN WrongPassword
    ELSE LoginOk(JwtSign(user, iat))

\* Mutant of LoginCompare: the handler rewrites the stored hash at a higher
\* cost when it compares.
LoginCompareRehash(r) ==
    /\ kind[r] = "login" /\ pc[r] = "compare"
    /\ \E user \in local[r].user, iat \in Clock :
          /\ Respond(r, LoginOnCompare(user, body[r].password, iat))
          /\ users' = [i \in DOMAIN users |->
                          IF users[i].id = user.id
                          THEN [users[i] EXCEPT
                                   !.password_hash.cost = SaltRounds + 2]
                          ELSE users[i]]
    /\ UNCHANGED <<emailUniqueKey, uuids, mails, kind, body, local,
                   threw, doneBefore, verifiedBy, registered, sent>>

LoginCompare(r) ==
    /\ kind[r] = "login" /\ pc[r] = "compare"
    /\ \E user \in local[r].user, iat \in Clock :
          Respond(r, LoginOnCompare(user, body[r].password, iat))
    /\ UNCHANGED <<users, emailUniqueKey, uuids, mails, kind, body, local,
                   threw, doneBefore, verifiedBy, registered, sent>>

\* ------------------------------------------------------------ environment
RegisterBodies ==
    {[NoBody EXCEPT !.email = "alice@example.com", !.password = 1,
                    !.first_name = "Alice", !.last_name = "Smith"],
     [NoBody EXCEPT !.email = "alice@example.com", !.password = MaxPw,
                    !.first_name = "Alicia", !.last_name = "Jones"],
     [NoBody EXCEPT !.email = "bob@example.com", !.password = 1,
                    !.first_name = "Bob", !.last_name = "Smith"]}
VerifyParams == {[NoBody EXCEPT !.unique_id = t] : t \in UniqueIds}
LoginBodies ==
    {[NoBody EXCEPT !.email = "alice@example.com", !.password = p] :
        p \in Passwords}
    \cup {[NoBody EXCEPT !.email = "bob@example.com", !.password = 1]}

Next ==
    \/ \E r \in Reqs :
          \/ \E b \in RegisterBodies : Arrive(r, "register", b)
          \/ \E b \in VerifyParams : Arrive(r, "verify", b)
          \/ \E b \in LoginBodies : Arrive(r, "login", b)
          \/ RegisterFind(r) \/ RegisterFindFail(r)
          \/ RegisterInsert(r) \/ RegisterInsertFail(r)
          \/ RegisterMail(r) \/ RegisterMailFail(r)
          \/ VerifyFind(r) \/ VerifyFindFail(r)
          \/ VerifyMark(r) \/ VerifyMarkFail(r)
          \/ LoginFind(r) \/ LoginFindFail(r)
          \/ LoginCompare(r)

Spec == Init /\ [][Next]_vars

\* The next step of request r's handler.  Every awaited promise of the pool
\* and of the transporter settles, and the event loop then runs the
\* continuation: a request that waits is not left waiting forever.
Progress(r) ==
    \/ RegisterFind(r) \/ RegisterFindFail(r)
    \/ RegisterInsert(r) \/ RegisterInsertFail(r)
    \/ RegisterMail(r) \/ RegisterMailFail(r)
    \/ VerifyFind(r) \/ VerifyFindFail(r)
    \/ VerifyMark(r) \/ VerifyMarkFail(r)
    \/ LoginFind(r) \/ LoginFindFail(r)
    \/ LoginCompare(r)

FairSpec == Spec /\ \A r \in Reqs : WF_vars(Progress(r))

\* ------------------------------------------- userModel, called directly
\* The operations of the Identity Store applied to any argument, as a caller
\* other than the handlers may apply them.  Each is one statement, hence one
\* step; threw[r] tells whether the promise rejected and with what.

\* What `await userModel.verifyUser(unique_id)` gives back when the
\* statement ran: the UPDATE's result is dropped and the promise resolves
\* (""), whatever number of rows it changed.
VerifyUserRejection(unique_id) == ""

\* createUser(...) with a fresh unique_id and salt.
CallCreateUser(r, b) ==
    /\ pc[r] = "idle"
    /\ \A q \in Reqs : q < r => pc[q] # "idle"
    /\ kind' = [kind EXCEPT ![r] = "createUser"]
    /\ body' = [body EXCEPT ![r] = b]
    /\ uuids' = Uuidv4
    /\ local' = [local EXCEPT ![r].unique_id = Uuidv4]
    /\ pc' = [pc EXCEPT ![r] = "done"]
    /\ doneBefore' = [doneBefore EXCEPT ![r] = {q \in Reqs : pc[q] = "done"}]
    /\ IF DuplicateEntry(b.email)
       THEN /\ threw' = [threw EXCEPT ![r] = "ER_DUP_ENTRY"]
            /\ UNCHANGED <<users, registered>>
       ELSE /\ users' = Append(users,
                   NewRow(Uuidv4, b.first_name, b.last_name, b.email,
                          BcryptHash(b.password, GenSalt)))
            /\ registered' = [registered EXCEPT
                                 ![Len(users) + 1] = b.password]
            /\ UNCHANGED threw
    /\ UNCHANGED <<emailUniqueKey, sent, mails, res, verifiedBy>>

\* verifyUser(unique_id); local[r].user keeps the rows that owned the token
\* when the statement ran.
CallVerifyUser(r, unique_id) ==
    /\ pc[r] = "idle"
    /\ \A q \in Reqs : q < r => pc[q] # "idle"
    /\ kind' = [kind EXCEPT ![r] = "verifyUser"]
    /\ body' = [body EXCEPT ![r] = [NoBody EXCEPT !.unique_id = unique_id]]
    /\ local' = [local EXCEPT ![r].user = FindByUniqueId(unique_id)]
    /\ users' = VerifiedRows(unique_id)
    /\ verifiedBy' = [i \in DOMAIN verifiedBy |->
                        IF i \in DOMAIN users
                           /\ users[i].unique_id = unique_id
                        THEN verifiedBy[i] \cup {r}
                        ELSE verifiedBy[i]]
    /\ threw' = [threw EXCEPT ![r] = VerifyUserRejection(unique_id)]
    /\ pc' = [pc EXCEPT ![r] = "done"]
    /\ doneBefore' = [doneBefore EXCEPT ![r] = {q \in Reqs : pc[q] = "done"}]
    /\ UNCHANGED <<emailUniqueKey, uuids, sent, mails, res, registered>>

\* verifyUser(unique_id) when the store cannot run the statement.
CallVerifyUserFail(r, unique_id) ==
    /\ pc[r] = "idle"
    /\ \A q \in Reqs : q < r => pc[q] # "idle"
    /\ CanFail
    /\ kind' = [kind EXCEPT ![r] = "verifyUser"]
    /\ body' = [body EXCEPT ![r] = [NoBody EXCEPT !.unique_id = unique_id]]
    /\ local' = [local EXCEPT ![r].user = FindByUniqueId(unique_id)]
    /\ threw' = [threw EXCEPT ![r] = "verifyUser"]
    /\ pc' = [pc EXCEPT ![r] = "done"]
    /\ doneBefore' = [doneBefore EXCEPT ![r] = {q \in Reqs : pc[q] = "done"}]
    /\ UNCHANGED <<users, emailUniqueKey, uuids, sent, mails, res, verifiedBy,
                   registered>>

StoreNext ==
    \E r \in Reqs :
        \/ \E b \in RegisterBodies : CallCreateUser(r, b)
        \/ \E t \in UniqueIds : CallVerifyUser(r, t)
        \/ \E t \in UniqueIds : CallVerifyUserFail(r, t)

StoreSpec == Init /\ [][StoreNext]_vars

\* ==================================================================== claims
Registers == {r \in Reqs : kind[r] = "register"}
Verifies == {r \in Reqs : kind[r] = "verify"}
Logins == {r \in Reqs : kind[r] = "login"}
Answered(r) == pc[r] = "done"

\* C1: in every reachable state the store holds at most one user per email,
\* also when several Register requests for one email pass the findByEmail
\* pre-check before any of them inserts.
C1_OneUserPerEmail ==
    \A i, j \in DOMAIN users : users[i].email = users[j].email => i = j

\* C2: when exactly two Register requests carry an email that no earlier
\* user has, both are answered and no store call or mail send failed, one of
\* them is answered 201 Created and the other 400 EmailTaken; the loser is
\* answered neither 201 nor 500.
C2_OneCreatedOneTaken ==
    \A r1, r2 \in Registers :
        /\ r1 # r2
        /\ body[r1].email = body[r2].email
        /\ \A q \in Registers \ {r1, r2} : body[q].email # body[r1].email
        /\ \A i \in DOMAIN users :
              users[i].email = body[r1].email
                  => users[i].unique_id \in {local[r1].unique_id,
                                             local[r2].unique_id}
        /\ Answered(r1) /\ Answered(r2)
        /\ Faults = {}
        => \/ res[r1] = Created /\ res[r2] = EmailTaken
           \/ res[r1] = EmailTaken /\ res[r2] = Created

\* The outcome the interface calls InvalidCredentials.
InvalidCredentials == Json(400, "Invalid email or password.")

\* The rows a request's snapshot `user` stands for, and what the request read.
ReadUnverified(r) == \E u \in local[r].user : ~u.is_verified
ReadVerified(r) == \E u \in local[r].user : u.is_verified
ReadNothing(r) == local[r].user = {}
\* Whether the submitted password is the one the user read was registered with.
PasswordCorrect(r) ==
    \E u \in local[r].user : body[r].password = registered[u.id]

\* C3: Login answers with a session token only for a user that a
\* VerifyByToken has marked verified, and a Login that reads a user whose
\* is_verified is false is answered NotVerified (403) without a token, also
\* when the password is the registered one.
C3_TokenOnlyIfVerified ==
    \A r \in Logins :
        /\ res[r].token # {} =>
              \A t \in res[r].token :
                  /\ t.id \in DOMAIN users
                  /\ users[t.id].is_verified
                  /\ verifiedBy[t.id] # {}
        /\ Answered(r) /\ ReadUnverified(r) => res[r] = NotVerified

\* C3 witness: a Login with the registered password was answered 403
\* because the account was unverified.
C3_Witness ==
    \E r \in Logins :
        Answered(r) /\ ReadUnverified(r) /\ PasswordCorrect(r)
        /\ res[r] = NotVerified

\* C4 as stated: a Login with an existing user's email and a wrong password
\* is answered exactly as a Login with an email no user has.
C4_WrongPasswordLikeUnknownEmail ==
    \A r \in Logins :
        Answered(r) /\ threw[r] = ""
        /\ (ReadNothing(r) \/ ~PasswordCorrect(r))
        => res[r] = InvalidCredentials

\* C4 amended: a Login with the email of an existing verified user and a
\* wrong password is answered exactly as a Login with an email no user has:
\* 400 with the body "Invalid email or password."
C4_VerifiedWrongPasswordLikeUnknownEmail ==
    \A r \in Logins :
        Answered(r) /\ threw[r] = ""
        /\ (ReadNothing(r) \/ (ReadVerified(r) /\ ~PasswordCorrect(r)))
        => res[r] = InvalidCredentials

\* C4 witness: a verified user's Login with a wrong password was answered.
C4_Witness ==
    \E r \in Logins :
        Answered(r) /\ ReadVerified(r) /\ ~PasswordCorrect(r)
        /\ res[r] = InvalidCredentials

\* C5: is_verified is monotonic: a user that is verified stays in the store
\* and stays verified in every later state, whatever request runs.
C5_VerifiedStaysVerified ==
    [][\A i \in DOMAIN users :
          users[i].is_verified =>
              i \in DOMAIN users' /\ users'[i].is_verified]_vars

\* C5 witness: a request that arrived after a user had been verified has
\* been answered, and the user is still verified.
C5_Witness ==
    \E i \in DOMAIN users : \E v \in verifiedBy[i] : \E r \in Reqs :
        v \in doneBefore[r] \cup {0} /\ Answered(r) /\ users[i].is_verified

\* What C6 says of the answered requests of a state.
C6_Answers ==
    /\ \A r \in Verifies :
          \* the call that finds the user unverified reports "newly verified"
          /\ Answered(r) /\ threw[r] = "" /\ ReadUnverified(r)
                => res[r] = NewlyVerified
          \* is_verified is true after it
          /\ res[r] = NewlyVerified =>
                /\ \E i \in DOMAIN users : users[i].unique_id = body[r].unique_id
                /\ \A i \in DOMAIN users :
                      users[i].unique_id = body[r].unique_id
                          => users[i].is_verified
    /\ \A r1, r2 \in Verifies :
          \* every call made after it with the same token: "already verified"
          /\ body[r1].unique_id = body[r2].unique_id
          /\ res[r1] = NewlyVerified
          /\ r1 \in doneBefore[r2]
          /\ Answered(r2) /\ threw[r2] = ""
          => res[r2] = AlreadyVerified

\* C6: of two VerifyByToken calls made one after the other with the valid
\* token of an unverified user, the first is answered "newly verified" and
\* the second "already verified", both with status 200; the user is verified
\* after both; every further call is answered "already verified" and leaves
\* the store unchanged.
C6_VerifyTwice ==
    [][/\ C6_Answers'
       /\ NewlyVerified.status = 200 /\ AlreadyVerified.status = 200
       /\ \A r \in Reqs :
             res[r] # AlreadyVerified /\ res'[r] = AlreadyVerified
                => users' = users]_vars

\* C6 witness: the token was redeemed and a later call with it was answered
\* "already verified".
C6_Witness ==
    \E r1, r2 \in Verifies :
        /\ body[r1].unique_id = body[r2].unique_id
        /\ r1 \in doneBefore[r2]
        /\ res[r1] = NewlyVerified /\ res[r2] = AlreadyVerified

\* C7: VerifyByToken with a token that is no user's unique_id is answered
\* NotFound (404) and leaves every user record unchanged.
C7_UnknownTokenNotFound ==
    [][\A r \in Verifies :
          /\ pc[r] = "find" /\ pc'[r] # "find" /\ threw'[r] = ""
          /\ \A i \in DOMAIN users : users[i].unique_id # body[r].unique_id
          => /\ res'[r] = InvalidLink
             /\ res'[r].status = 404
             /\ users' = users]_vars

\* C7 witness: a token no user owns was presented to a non-empty store and
\* answered 404.
C7_Witness ==
    \E r \in Verifies :
        /\ res[r] = InvalidLink
        /\ users # <<>>
        /\ \A i \in DOMAIN users : users[i].unique_id # body[r].unique_id

\* What C8 says of the answered requests of a state.
C8_Answers ==
    \A r \in Registers :
        threw[r] = "sendMail" =>
            \* an error outcome, not 201
            /\ res[r].status = 500
            \* the record is in the store with its unique_id, and is
            \* unverified unless a VerifyByToken has marked it since
            /\ \E i \in DOMAIN users :
                  /\ users[i].unique_id = local[r].unique_id
                  /\ users[i].email = body[r].email
                  /\ users[i].is_verified <=> verifiedBy[i] # {}
            \* a later Register with the same email: EmailTaken
            /\ \A q \in Registers :
                  /\ r \in doneBefore[q]
                  /\ body[q].email = body[r].email
                  /\ Answered(q) /\ threw[q] = ""
                  => res[q] = EmailTaken

\* C8: when the mail send fails after Register persisted the user, the
\* record stays in the store, unverified and with its unique_id (nothing is
\* rolled back); the caller gets an error and not 201; a later Register with
\* that email is answered EmailTaken.
C8_MailFailureKeepsUser ==
    [][/\ C8_Answers'
       /\ \A r \in Registers :
             threw[r] = "" /\ threw'[r] = "sendMail" => users' = users]_vars

\* C8 witness: after a failed mail send a Register with the same email was
\* answered EmailTaken.
C8_Witness ==
    \E r, q \in Registers :
        /\ threw[r] = "sendMail"
        /\ r \in doneBefore[q]
        /\ body[q].email = body[r].email
        /\ res[q] = EmailTaken

C10_TokenClaims ==
    \A r \in Logins : \A t \in res[r].token :
        /\ \E i \in DOMAIN users :
              /\ users[i].email = body[r].email
              /\ t.id = users[i].id
              /\ t.email = users[i].email
              /\ t.first_name = users[i].first_name
              /\ t.last_name = users[i].last_name
        /\ t.iat \in Clock
        /\ t.exp = t.iat + 24 * 60 * 60

\* C10 witness: a token was issued at a time other than 0.
C10_Witness ==
    \E r \in Logins : \E t \in res[r].token : t.iat > 0

\* C11: verifyUser (markVerified) fails with NotFound when no user owns the
\* token, and changes nothing and raises no error when the owner is already
\* verified.
C11_VerifyUserNotFound ==
    \A r \in Reqs :
        kind[r] = "verifyUser" /\ threw[r] # "verifyUser" =>
            /\ local[r].user = {} => threw[r] = "NotFound"
            /\ (\E u \in local[r].user : u.is_verified) => threw[r] = ""

\* C12: Login answers NotVerified only when the email exists, the password
\* is the registered one and the account is unverified; a Login with a wrong
\* password is never answered NotVerified.
C12_NotVerifiedOnlyIfCorrect ==
    \A r \in Logins :
        res[r] = NotVerified
            => ReadUnverified(r) /\ PasswordCorrect(r)

\* C12 amended: Login answers NotVerified exactly when the email belongs to
\* a user whose is_verified it read as false, whatever the password; for an
\* unknown email or a verified user it never does.
C12_NotVerifiedIffUnverified ==
    \A r \in Logins :
        Answered(r) /\ threw[r] = ""
            => (res[r] = NotVerified <=> ReadUnverified(r))

\* C12 witness: an unverified user's Login with a wrong password was
\* answered NotVerified.
C12_Witness ==
    \E r \in Logins :
        /\ Answered(r) /\ ReadUnverified(r) /\ ~PasswordCorrect(r)
        /\ res[r] = NotVerified

\* The calls of transporter.sendMail a request made, and the rows it
\* persisted (the row carrying the unique_id the request drew).
SendMailCalls(r) == {i \in DOMAIN sent : sent[i].req = r}
PersistedBy(r) == {u \in Rows : u.unique_id = local[r].unique_id}

\* C13: transporter.sendMail is called exactly once for each Register that
\* persisted a user, to that user's email and with a link that embeds the
\* unique_id stored for that user; a Register answered EmailTaken, or whose
\* INSERT failed, never calls it.
C13_OneMailPerPersistedUser ==
    \A r \in Registers :
        IF PersistedBy(r) # {}
        THEN /\ Cardinality(SendMailCalls(r)) = 1
             /\ \A i \in SendMailCalls(r) : \A u \in PersistedBy(r) :
                   sent[i].to = u.email /\ sent[i].link = u.unique_id
        ELSE SendMailCalls(r) = {}

\* C13 witness: one Register persisted a user and called sendMail after an
\* earlier Register's INSERT had failed, and that one called nothing.
C13_Witness ==
    \E r, q \in Registers :
        /\ PersistedBy(r) # {} /\ SendMailCalls(r) # {} /\ Answered(r)
        /\ threw[q] \in {"createUser", "ER_DUP_ENTRY"}
        /\ SendMailCalls(q) = {}

\* No response other than a successful Login's carries a session token.
TokensOnlyFromLogin ==
    \A r \in Reqs :
        res[r].token # {} => kind[r] = "login" /\ res[r].status = 200

\* C14: a Register that persists a user creates it with is_verified false
\* and issues no token: in the state right after its 201 response the store
\* holds that user as unverified, and no token exists that a Login did not
\* issue.
C14_UnverifiedRightAfterCreated ==
    /\ []TokensOnlyFromLogin
    /\ [][\A r \in Registers :
            res[r] # Created /\ res'[r] = Created
                => \A i \in DOMAIN users' :
                      users'[i].unique_id = local'[r].unique_id
                          => ~users'[i].is_verified]_vars

\* C14 amended: the row a Register inserts has is_verified false and stays
\* so until a VerifyByToken marks it (which may happen before the 201 is
\* sent); the 201 carries no token, and only a successful Login's response
\* carries one.
C14_UnverifiedUntilMarked ==
    /\ TokensOnlyFromLogin
    /\ \A r \in Registers : res[r] = Created => PersistedBy(r) # {}
    /\ \A u \in Rows : u.is_verified <=> verifiedBy[u.id] # {}

\* C14 witness: a Register was answered 201, its user is still unverified,
\* and a Login for that user has been answered without a token.
C14_Witness ==
    \E r \in Registers : \E q \in Logins :
        /\ res[r] = Created
        /\ PersistedBy(r) # {} /\ \A u \in PersistedBy(r) : ~u.is_verified
        /\ Answered(q) /\ local[q].user \subseteq PersistedBy(r)
        /\ local[q].user # {} /\ res[q].token = {}

\* C15: no step of a Login request, whatever its outcome (token issued,
\* InvalidCredentials, NotVerified, ServerError), creates, removes or
\* modifies a user: the users table is the same before and after it.
C15_LoginLeavesStore ==
    [][\A r \in Reqs :
          kind'[r] = "login" /\ pc'[r] # pc[r] => users' = users]_vars

\* C15 witness: Logins have ended with a token, with NotVerified, with
\* InvalidCredentials or with ServerError on a store that holds a user.
C15_Witness ==
    /\ users # <<>>
    /\ \E r \in Logins : Answered(r) /\ res[r].token # {}
    /\ \E r \in Logins :
          Answered(r) /\ res[r] \in {NotVerified, InvalidCredentials,
                                     LoginError}

\* C16: every Register, VerifyByToken and Login request that starts is
\* eventually answered, also when a store call or the mail send rejects; a
\* response once sent is never followed by another, a request is answered
\* exactly when its handler has ended, and a rejected call is answered 500.
C16_OneResponseAlways ==
    /\ \A r \in Reqs : (pc[r] # "idle") ~> (res[r] # NoResponse)
    /\ [][\A r \in Reqs : res[r] # NoResponse => res'[r] = res[r]]_vars
    /\ [](\A r \in Reqs : res[r] # NoResponse <=> pc[r] = "done")
    /\ [](\A r \in Reqs : threw[r] # "" => res[r].status = 500)

\* C16 witness: one request ended with 500 after a rejected call and
\* another was answered without any failure.
C16_Witness ==
    \E r, q \in Reqs :
        /\ threw[r] \notin {"", "ER_DUP_ENTRY"} /\ res[r].status = 500
        /\ threw[q] = "" /\ Answered(q) /\ res[q].status # 500

\* C17: the response of a Register whose mail send failed differs from the
\* response of a Register whose INSERT failed, so that the caller can tell
\* from the response whether the user record was persisted.
C17_MailFailureDistinct ==
    \A r, q \in Registers :
        /\ threw[r] = "sendMail" /\ PersistedBy(r) # {}
        /\ threw[q] \in {"createUser", "ER_DUP_ENTRY"} /\ PersistedBy(q) = {}
        => res[r] # res[q]

\* C18: among VerifyByToken requests with the same valid token, however
\* they interleave, at most one is answered "newly verified".
C18_OneNewlyVerified ==
    \A r, q \in Verifies :
        /\ body[r].unique_id = body[q].unique_id
        /\ res[r] = NewlyVerified /\ res[q] = NewlyVerified
        => r = q

\* C18 amended: the stored is_verified of a user goes from false to true
\* once and never back; each VerifyByToken is answered by what it read:
\* "newly verified" if it read the user unverified (several overlapping
\* requests may), "already verified" if it read the user verified; and
\* whenever one has been answered "newly verified" the user is verified.
C18_NewlyVerifiedPerReader ==
    /\ [](\A r \in Verifies :
            Answered(r) /\ threw[r] = ""
                => /\ res[r] = NewlyVerified <=> ReadUnverified(r)
                   /\ res[r] = AlreadyVerified <=> ReadVerified(r))
    /\ [](\A r \in Verifies :
            res[r] = NewlyVerified
                => \A u \in Rows :
                      u.unique_id = body[r].unique_id => u.is_verified)
    /\ [][\A i \in DOMAIN users :
            users[i].is_verified => users'[i].is_verified]_vars

\* C18 witness: two overlapping VerifyByToken requests with the same token
\* were both answered "newly verified".
C18_Witness ==
    \E r, q \in Verifies :
        /\ r # q /\ body[r].unique_id = body[q].unique_id
        /\ r \notin doneBefore[q] /\ q \notin doneBefore[r]
        /\ res[r] = NewlyVerified /\ res[q] = NewlyVerified

\* A user record without its is_verified field.
Identity(u) ==
    [id |-> u.id, unique_id |-> u.unique_id, email |-> u.email,
     password_hash |-> u.password_hash, first_name |-> u.first_name,
     last_name |-> u.last_name]

\* C19: a step of a VerifyByToken request changes nothing but the
\* is_verified field of the users whose unique_id is the token: their other
\* fields, every other user's record and the set of users stay as they
\* were; and no step of any request removes a user or changes a user's id,
\* unique_id, email or password_hash.
C19_VerifyChangesOnlyIsVerified ==
    [][/\ Len(users') >= Len(users)
       /\ \A i \in DOMAIN users : Identity(users'[i]) = Identity(users[i])
       /\ \A r \in Reqs :
             kind'[r] = "verify" /\ pc'[r] # pc[r]
                => /\ Len(users') = Len(users)
                   /\ \A i \in DOMAIN users :
                         users[i].unique_id # body'[r].unique_id
                             => users'[i] = users[i]]_vars

\* C19 witness: a VerifyByToken marked one user of a store that holds
\* another user, who is still unverified.
C19_Witness ==
    \E r \in Verifies : \E u, v \in Rows :
        /\ res[r] = NewlyVerified
        /\ u.unique_id = body[r].unique_id /\ u.is_verified
        /\ v.unique_id # body[r].unique_id /\ ~v.is_verified

=============================================================================
